---- MODULE Spec2Model ----
(***************************************************************************)
(* Channel migration pipeline of ely_storage                               *)
(* (src/src/services/discord-migrator.js): the paginated history fetch,    *)
(* URL extraction, file transfer, URL rewriting, webhook repost and the    *)
(* progress/statistics protocol of migrateChannel.                         *)
(*                                                                         *)
(* Strings are sequences of one-character tokens.  The token "H" stands    *)
(* for the fixed head of a CDN URL that DISCORD_CDN_REGEX requires         *)
(* (scheme, host and "/attachments/"), "N" for the head of a URL of any    *)
(* other host, "D" for baseUrl + "/download/"; "a" and "b" are word        *)
(* characters (\w), "." "?" and " " are themselves.                        *)
(***************************************************************************)
EXTENDS Integers, Sequences, FiniteSets, TLC

(***************************************************************************)
(* Bounds of the model.                                                    *)
(***************************************************************************)
\* longest history built from the message templates below
MaxMsgs == 2
\* largest history of the fetch-only specification
MaxHistory == 201
\* most faults (failed request, failed write, throwing sink) in one run
MaxFaults == 2
\* faults inside the message loop hit only the first FaultWindow messages
FaultWindow == 2

(***************************************************************************)
(* Program constants.                                                      *)
(***************************************************************************)
\* fetchChannelMessages(botToken, channelId, threadId = null, limit = 100)
DefaultLimit == 100
\* params = { limit: Math.min(limit, 100) }
MaxPageLimit == 100
\* if (batch.length < 100) break;
FullPage == 100

Min(a, b) == IF a < b THEN a ELSE b

(***************************************************************************)
(* Strings.                                                                *)
(***************************************************************************)
WordChars == {"a", "b"}
\* the class [\w/-] of DISCORD_CDN_REGEX
PathChars == WordChars \cup {"/", "-"}
\* the characters escapeRegex escapes: [.*+?^${}()|[\]\\]
RegexSpecial == {".", "*", "+", "?", "^", "$", "{", "}", "(", ")", "|", "[", "]", "\\"}

RECURSIVE RunEnd(_, _, _)
\* last index of the longest run of characters of class S that starts at p
\* (p - 1 when the run is empty): a greedy S* of the regex engine
RunEnd(t, p, S) ==
    IF p <= Len(t) /\ t[p] \in S THEN RunEnd(t, p + 1, S) ELSE p - 1

\* DISCORD_CDN_REGEX tried at position p: the index of the last character of
\* the match, 0 when there is none.  [\w/-]+ and [\w]+ are greedy; "." is
\* not in [\w/-], so backtracking finds no other match.
cdnMatchEnd(t, p) ==
    IF t[p] # "H" THEN 0
    ELSE LET q == RunEnd(t, p + 1, PathChars) IN
         IF q < p + 1 \/ q + 1 > Len(t) THEN 0
         ELSE IF t[q + 1] # "." THEN 0
         ELSE LET r == RunEnd(t, q + 2, WordChars) IN
              IF r < q + 2 THEN 0 ELSE r

RECURSIVE cdnMatchFrom(_, _)
cdnMatchFrom(t, p) ==
    IF p > Len(t) THEN <<>>
    ELSE LET e == cdnMatchEnd(t, p) IN
         IF e > 0 THEN <<SubSeq(t, p, e)>> \o cdnMatchFrom(t, e + 1)
         ELSE cdnMatchFrom(t, p + 1)

\* text.match(DISCORD_CDN_REGEX): every match, left to right (null, which the
\* callers skip, is the empty list)
DISCORD_CDN_REGEX(text) == cdnMatchFrom(text, 1)

RECURSIVE escapeRegex(_)
\* string.replace(/[.*+?^${}()|[\]\\]/g, '\\$&')
escapeRegex(string) ==
    IF string = <<>> THEN <<>>
    ELSE (IF Head(string) \in RegexSpecial
          THEN <<"\\", Head(string)>> ELSE <<Head(string)>>)
         \o escapeRegex(Tail(string))

RECURSIVE RegExp(_)
\* new RegExp(source, 'g'): the atoms of the pattern.  A backslash makes the
\* next character literal, an unescaped "." matches any character.
RegExp(source) ==
    IF source = <<>> THEN <<>>
    ELSE IF Head(source) = "\\" /\ Len(source) >= 2
         THEN <<[any |-> FALSE, ch |-> source[2]]>> \o RegExp(Tail(Tail(source)))
         ELSE <<[any |-> Head(source) = ".", ch |-> Head(source)]>>
              \o RegExp(Tail(source))

atomsMatchAt(t, p, atoms) ==
    /\ p + Len(atoms) - 1 <= Len(t)
    /\ \A j \in 1..Len(atoms) : atoms[j].any \/ atoms[j].ch = t[p + j - 1]

RECURSIVE replaceFrom(_, _, _, _)
replaceFrom(t, p, atoms, new) ==
    IF p > Len(t) THEN <<>>
    ELSE IF atoms # <<>> /\ atomsMatchAt(t, p, atoms)
         THEN new \o replaceFrom(t, p + Len(atoms), atoms, new)
         ELSE <<t[p]>> \o replaceFrom(t, p + 1, atoms, new)

\* text.replace(new RegExp(escapeRegex(oldUrl), 'g'), newUrl)
replaceAll(text, oldUrl, newUrl) ==
    replaceFrom(text, 1, RegExp(escapeRegex(oldUrl)), newUrl)

\* \d
Digits == {"1", "2"}

\* an id Discord can resolve is a string of digits; for any other targetId
\* the request of line 50 is answered with an error status
Snowflake(id) == id # <<>> /\ \A j \in 1..Len(id) : id[j] \in Digits

\* parseWebhookUrl(webhookUrl): /discord\.com\/api\/webhooks\/(\d+)\/([\w-]+)/,
\* unanchored; the token "W" is "discord.com/api/webhooks/"
parseWebhookUrl(webhookUrl) ==
    LET hits == {p \in 1..Len(webhookUrl) :
                    /\ webhookUrl[p] = "W"
                    /\ LET q == RunEnd(webhookUrl, p + 1, Digits) IN
                         /\ q >= p + 1
                         /\ q + 1 <= Len(webhookUrl)
                         /\ webhookUrl[q + 1] = "/"
                         /\ RunEnd(webhookUrl, q + 2, WordChars \cup Digits \cup {"-"})
                                >= q + 2}
    IN  IF hits = {} THEN [threw |-> TRUE, webhookId |-> <<>>, webhookToken |-> <<>>]
        ELSE LET p == CHOOSE x \in hits : \A y \in hits : x <= y
                 q == RunEnd(webhookUrl, p + 1, Digits)
                 r == RunEnd(webhookUrl, q + 2, WordChars \cup Digits \cup {"-"})
             IN  [threw |-> FALSE, webhookId |-> SubSeq(webhookUrl, p + 1, q),
                  webhookToken |-> SubSeq(webhookUrl, q + 2, r)]

(***************************************************************************)
(* A Set of strings in insertion order (the JavaScript Set / Map keys).    *)
(***************************************************************************)
SetHas(urls, u) == \E j \in 1..Len(urls) : urls[j] = u

\* mutant: a list instead of a Set
SetAdd_list(urls, u) == Append(urls, u)

SetAdd(urls, u) == IF SetHas(urls, u) THEN urls ELSE Append(urls, u)

RECURSIVE SetAddAll(_, _)
SetAddAll(urls, list) ==
    IF list = <<>> THEN urls
    ELSE SetAddAll(SetAdd(urls, Head(list)), Tail(list))

(***************************************************************************)
(* Messages.  A url or a text that is absent (undefined, null) is <<>>:    *)
(* the code tests every one of them for truthiness, which the empty        *)
(* string fails too.  A field whose value is not a string has isString     *)
(* FALSE.                                                                  *)
(***************************************************************************)
Str(v) == [value |-> v, isString |-> TRUE]
NotStr == [value |-> <<>>, isString |-> FALSE]

Embed(image, thumbnail, video, fields, description) ==
    [image |-> image, thumbnail |-> thumbnail, video |-> video,
     fields |-> fields, description |-> description]

RECURSIVE addAttachments(_, _)
\* message.attachments.forEach(att => { if (att.url) urls.add(att.url); })
addAttachments(urls, attachments) ==
    IF attachments = <<>> THEN urls
    ELSE addAttachments(IF Head(attachments).url # <<>>
                        THEN SetAdd(urls, Head(attachments).url) ELSE urls,
                        Tail(attachments))

RECURSIVE addFields(_, _)
\* embed.fields.forEach(field => field.value.match(DISCORD_CDN_REGEX) ...):
\* .match on a value that is no string throws a TypeError
addFields(acc, fields) ==
    IF fields = <<>> \/ acc.threw THEN acc
    ELSE IF ~Head(fields).isString THEN [threw |-> TRUE, urls |-> <<>>]
    ELSE addFields([acc EXCEPT !.urls =
                        SetAddAll(@, DISCORD_CDN_REGEX(Head(fields).value))],
                   Tail(fields))

\* one embed: image, thumbnail, video (taken as they are), then the field
\* values and the description (pattern-matched)
addEmbed(acc, embed) ==
    LET u1 == IF embed.image # <<>> THEN SetAdd(acc.urls, embed.image) ELSE acc.urls
        u2 == IF embed.thumbnail # <<>> THEN SetAdd(u1, embed.thumbnail) ELSE u1
        u3 == IF embed.video # <<>> THEN SetAdd(u2, embed.video) ELSE u2
        f  == addFields([threw |-> FALSE, urls |-> u3], embed.fields)
    IN  IF f.threw THEN f
        ELSE IF embed.description # <<>>
             THEN [f EXCEPT !.urls = SetAddAll(@, DISCORD_CDN_REGEX(embed.description))]
             ELSE f

RECURSIVE addEmbeds(_, _)
addEmbeds(acc, embeds) ==
    IF embeds = <<>> \/ acc.threw THEN acc
    ELSE addEmbeds(addEmbed(acc, Head(embeds)), Tail(embeds))

\* extractFileUrls(message): Array.from(urls), or the exception
extractFileUrls(message) ==
    LET a == addAttachments(<<>>, message.attachments)
        e == addEmbeds([threw |-> FALSE, urls |-> a], message.embeds)
    IN  IF e.threw THEN e
        ELSE IF message.content # <<>>
             THEN [e EXCEPT !.urls = SetAddAll(@, DISCORD_CDN_REGEX(message.content))]
             ELSE e

(***************************************************************************)
(* The url map (a JavaScript Map, iterated in insertion order).            *)
(***************************************************************************)
MapHas(urlMap, u) == \E j \in 1..Len(urlMap) : urlMap[j].oldUrl = u

MapGet(urlMap, u) ==
    urlMap[CHOOSE j \in 1..Len(urlMap) : urlMap[j].oldUrl = u].newUrl

MapSet(urlMap, u, v) ==
    IF MapHas(urlMap, u)
    THEN [j \in 1..Len(urlMap) |->
            IF urlMap[j].oldUrl = u THEN [oldUrl |-> u, newUrl |-> v] ELSE urlMap[j]]
    ELSE Append(urlMap, [oldUrl |-> u, newUrl |-> v])

RECURSIVE replaceEach(_, _)
\* urlMap.forEach((newUrl, oldUrl) => { text = text.replace(..., newUrl); })
replaceEach(text, urlMap) ==
    IF urlMap = <<>> THEN text
    ELSE replaceEach(replaceAll(text, Head(urlMap).oldUrl, Head(urlMap).newUrl),
                     Tail(urlMap))

replaceWhole(url, urlMap) ==
    IF url # <<>> /\ MapHas(urlMap, url) THEN MapGet(urlMap, url) ELSE url

replaceEmbed(embed, urlMap) ==
    [image       |-> replaceWhole(embed.image, urlMap),
     thumbnail   |-> replaceWhole(embed.thumbnail, urlMap),
     video       |-> replaceWhole(embed.video, urlMap),
     fields      |-> [j \in 1..Len(embed.fields) |->
                        [embed.fields[j] EXCEPT !.value = replaceEach(@, urlMap)]],
     description |-> IF embed.description # <<>>
                     THEN replaceEach(embed.description, urlMap)
                     ELSE embed.description]

\* mutant: field.value.replace is reached whatever the url map holds
replaceUrlsInMessage_strict(message, urlMap) ==
    [threw   |-> \E e \in 1..Len(message.embeds) :
                    \E f \in 1..Len(message.embeds[e].fields) :
                        ~message.embeds[e].fields[f].isString,
     content |-> replaceEach(message.content, urlMap),
     embeds  |-> [e \in 1..Len(message.embeds) |->
                    replaceEmbed(message.embeds[e], urlMap)]]

\* replaceUrlsInMessage(message, urlMap): { content, embeds }, or the
\* TypeError of field.value.replace on a value that is no string
replaceUrlsInMessage(message, urlMap) ==
    [threw   |-> /\ urlMap # <<>>
                 /\ \E e \in 1..Len(message.embeds) :
                      \E f \in 1..Len(message.embeds[e].fields) :
                          ~message.embeds[e].fields[f].isString,
     content |-> replaceEach(message.content, urlMap),
     embeds  |-> [e \in 1..Len(message.embeds) |->
                    replaceEmbed(message.embeds[e], urlMap)]]

(***************************************************************************)
(* The message templates the histories are built from.                     *)
(***************************************************************************)
U1  == <<"H", "a", ".", "b">>
U2  == <<"H", "b", ".", "a">>
\* U1 with a query string, as attachment and embed urls carry it
U1q == U1 \o <<"?", "a">>
\* a url of another host
X1  == <<"N", "a", ".", "b">>

Author(username, avatar) == [id |-> "7", username |-> username, avatar |-> avatar]

Templates ==
    << \* plain text, no embed, no attachment; no display name
       [content |-> <<"a", " ", "b">>, attachments |-> <<>>, embeds |-> <<>>,
        author |-> Author("", "")],
       \* one attachment and nothing else
       [content |-> <<>>, attachments |-> <<[url |-> U1]>>, embeds |-> <<>>,
        author |-> Author("u", "v")],
       \* the same url twice in the content, as embed image and in a field
       [content |-> U1 \o <<" ">> \o U1, attachments |-> <<>>,
        embeds |-> <<Embed(U1, <<>>, <<>>, <<Str(<<"a", " ">> \o U1)>>, <<>>)>>,
        author |-> Author("u", "")],
       \* two urls: an attachment, and a video that the content names too
       [content |-> <<"a", " ">> \o U2, attachments |-> <<[url |-> U1]>>,
        embeds |-> <<Embed(<<>>, <<>>, U2, <<>>, <<>>)>>,
        author |-> Author("u", "v")],
       \* a url and the same url with a query string
       [content |-> <<>>, attachments |-> <<[url |-> U1]>>,
        embeds |-> <<Embed(U1q, <<>>, <<>>, <<>>, U1q \o <<" ", "a">>)>>,
        author |-> Author("u", "")],
       \* urls of another host, and a CDN head with no file name
       [content |-> X1 \o <<" ", "H", "a">>, attachments |-> <<[url |-> <<>>]>>,
        embeds |-> <<Embed(<<>>, X1, <<>>, <<Str(X1)>>, <<>>)>>,
        author |-> Author("u", "v")],
       \* a field whose value is no string
       [content |-> U2, attachments |-> <<>>,
        embeds |-> <<Embed(<<>>, <<>>, <<>>, <<NotStr>>, <<>>)>>,
        author |-> Author("u", "")] >>

PlainTemplate == Templates[1]

(***************************************************************************)
(* State.                                                                  *)
(***************************************************************************)
VARIABLES
    channel,        \* the source channel: n messages, ids 1 (oldest) .. n
    trigger,        \* migrateChannel's arguments sourceChannelId,
                    \* sourceThreadId and targetWebhookUrl
    parked,         \* the locals of the other run, when two runs interleave
    limit,          \* fetchChannelMessages' limit argument
    pc,             \* where the run is
    messages,       \* fetchChannelMessages / migrateChannel: messages (ids)
    lastMessageId,  \* fetchChannelMessages: the cursor, 0 for null
    pages,          \* page requests answered so far
    fetchFailed,    \* fetchChannelMessages threw
    faults,         \* faults injected so far
    i,              \* migrateChannel: the loop index (1-based)
    fileUrls,       \* migrateChannel: the urls of message i
    k,              \* position of the for-of loop in fileUrls
    urlMap,         \* migrateChannel: source url -> download url
    messageData,    \* migrateChannel: the payload being built
    storedName,     \* uploadToStorage: the name of the file being written
    stats,          \* migrateChannel: the MigrationStats accumulator
    events,         \* every event handed to onProgress, in order
    result,         \* the promise of migrateChannel
    dlLog,          \* every download requested: [msg, url]
    regLog,         \* every dbOperations.insertFile call: [msg, url, ok, newUrl]
    failLog,        \* every transfer that failed: [msg, url, stage]
    postLog,        \* every webhook post: [msg, ok, content, embeds]
    skipped,        \* transfers dropped because onProgress threw: [msg, url]
    disk,           \* names of the files in config/uploads
    db,             \* rows of the files table: [storedName, downloadUrl]
    nextStored,     \* source of fresh stored names
    now,            \* server: Date.now(), in milliseconds
    ticks,          \* server: advances of the clock so far
    rateLimitMap,   \* rate-limiter.js: rateLimitMap, key -> [count, resetTime]
    observed,       \* an interval of WINDOW_MS of one client and its passes
    reply,          \* server: the answer to the last request handled
    API_KEY,        \* server.js: process.env.API_KEY
    fileCache,      \* hot-cache.js: fileCache, in insertion order
    downloadStats,  \* hot-cache.js: downloadStats, name -> downloads
    totalCacheSize, \* hot-cache.js: totalCacheSize, in bytes
    adding          \* hot-cache.js: the addToCache calls in flight

fetchVars == <<messages, lastMessageId, pages, fetchFailed>>
loopVars  == <<i, fileUrls, k, urlMap, messageData, storedName>>
outVars   == <<stats, events, result>>
envVars   == <<dlLog, regLog, failLog, postLog, skipped, disk, db, nextStored>>
srvVars   == <<now, ticks, rateLimitMap, observed, reply, API_KEY, fileCache,
               downloadStats, totalCacheSize, adding>>
vars == <<channel, trigger, parked, limit, pc, faults, fetchVars, loopVars, outVars, envVars,
          srvVars>>

NoStats == [totalMessages |-> 0, messagesWithFiles |-> 0, filesProcessed |-> 0,
            filesUploaded |-> 0, messagesPosted |-> 0, errors |-> <<>>]

NoMessageData == [content |-> <<>>, embeds |-> <<>>, username |-> "",
                  avatar_url |-> <<>>]

\* nothing has run yet
Fresh ==
    /\ messages = <<>> /\ lastMessageId = 0 /\ pages = 0 /\ fetchFailed = FALSE
    /\ faults = 0
    /\ i = 0 /\ fileUrls = <<>> /\ k = 0 /\ urlMap = <<>>
    /\ messageData = NoMessageData /\ storedName = ""
    /\ stats = NoStats /\ events = <<>> /\ result = "pending"
    /\ dlLog = <<>> /\ regLog = <<>> /\ failLog = <<>> /\ postLog = <<>>
    /\ skipped = {} /\ disk = {} /\ db = <<>> /\ nextStored = 1

\* process.env.API_KEY when the variable is not set
Unset == "undefined"

NoReply == [route |-> "", status |-> 0]
Unobserved == [ip |-> "", start |-> 0, passes |-> 0]

\* the server has started and no request has come in
ServerStarted ==
    /\ now = 0 /\ ticks = 0
    /\ rateLimitMap = <<>>
    /\ observed = Unobserved
    /\ reply = NoReply
    /\ fileCache = <<>>
    /\ downloadStats = <<>>
    /\ totalCacheSize = 0
    /\ adding = <<>>

\* ... by a process with no API_KEY in its environment
ServerFresh == ServerStarted /\ API_KEY = Unset

\* message id of the channel, as the API returns it
MessageOf(ch, id) ==
    [id |-> id] @@
    (IF ch.rich THEN Templates[((id - 1 + ch.off) % Len(Templates)) + 1]
     ELSE PlainTemplate)

(***************************************************************************)
(* fetchChannelMessages.                                                   *)
(***************************************************************************)
\* GET /channels/{id}/messages?limit=lim&before=cursor: the lim newest
\* messages older than the cursor (all of them when there is no cursor),
\* newest first
ServePage(n, before, lim) ==
    LET top == IF before = 0 THEN n ELSE before - 1
        cnt == Min(lim, top)
    IN  [j \in 1..cnt |-> top + 1 - j]

\* const targetId = threadId || channelId
targetId == IF trigger.sourceThreadId # <<>> THEN trigger.sourceThreadId
            ELSE trigger.sourceChannelId

\* mutant: a full page ends the loop too
pageIsLast_fullToo(batch) == Len(batch) <= FullPage

\* if (batch.length < 100) break;
pageIsLast(batch) == Len(batch) < FullPage

\* the call: messages = [], lastMessageId = null, the first request is sent
fetchChannelMessages ==
    /\ pc = "fetch"
    /\ messages' = <<>>
    /\ lastMessageId' = 0
    /\ pc' = "await_page"
    /\ UNCHANGED <<srvVars, channel, trigger, parked, limit, faults, pages, fetchFailed, loopVars, outVars, envVars>>

\* mutant: the fetcher itself reverses what it accumulated before it returns
Fetch_Page_reversing ==
    /\ pc = "await_page"
    /\ Snowflake(targetId)
    /\ LET batch == ServePage(channel.n, lastMessageId, Min(limit, MaxPageLimit))
           all == messages \o batch
       IN  IF Len(batch) = 0
           THEN /\ pc' = "fetched"
                /\ messages' = [j \in 1..Len(messages) |-> messages[Len(messages) + 1 - j]]
                /\ UNCHANGED lastMessageId
           ELSE /\ messages' = IF pageIsLast(batch)
                               THEN [j \in 1..Len(all) |-> all[Len(all) + 1 - j]]
                               ELSE all
                /\ lastMessageId' = batch[Len(batch)]
                /\ pc' = IF pageIsLast(batch) THEN "fetched" ELSE "await_page"
    /\ pages' = pages + 1
    /\ UNCHANGED <<srvVars, channel, trigger, parked, limit, faults, fetchFailed, loopVars,
                   outVars, envVars>>

\* a page arrives: the loop body after the await, up to the next request or
\* to the return
Fetch_Page ==
    /\ pc = "await_page"
    /\ Snowflake(targetId)
    /\ LET batch == ServePage(channel.n, lastMessageId, Min(limit, MaxPageLimit)) IN
         IF Len(batch) = 0
         THEN /\ pc' = "fetched"
              /\ UNCHANGED <<messages, lastMessageId>>
         ELSE /\ messages' = messages \o batch
              /\ lastMessageId' = batch[Len(batch)]
              /\ pc' = IF pageIsLast(batch) THEN "fetched" ELSE "await_page"
    /\ pages' = pages + 1
    /\ UNCHANGED <<srvVars, channel, trigger, parked, limit, faults, fetchFailed, loopVars, outVars, envVars>>

\* mutant: a failed page request ends the loop and what was accumulated is
\* returned
Fetch_PageFail_partial ==
    /\ pc = "await_page"
    /\ IF Snowflake(targetId) THEN faults < MaxFaults /\ faults' = faults + 1
       ELSE faults' = faults
    /\ fetchFailed' = TRUE
    /\ pc' = "fetched"
    /\ UNCHANGED <<srvVars, channel, trigger, parked, limit, messages, lastMessageId, pages, loopVars, outVars,
                   envVars>>

\* a page request fails: catch (error) { throw new Error(...) }; what was
\* accumulated is dropped with the frame
Fetch_PageFail ==
    /\ pc = "await_page"
    /\ IF Snowflake(targetId) THEN faults < MaxFaults /\ faults' = faults + 1
       ELSE faults' = faults
    /\ fetchFailed' = TRUE
    /\ messages' = <<>>
    /\ pc' = "fetch_threw"
    /\ UNCHANGED <<srvVars, channel, trigger, parked, limit, lastMessageId, pages, loopVars, outVars, envVars>>

FetchLimits == {1, 2, 50, DefaultLimit, 150}

\* a numeric channel id, no thread, a webhook url of the expected shape
Trigger(sourceChannelId, sourceThreadId, targetWebhookUrl) ==
    [sourceChannelId |-> sourceChannelId, sourceThreadId |-> sourceThreadId,
     targetWebhookUrl |-> targetWebhookUrl]

WebhookUrl == <<"W", "1", "/", "a", "-", "b">>

WellFormedTrigger == Trigger(<<"1", "2">>, <<>>, WebhookUrl)

InitFetch ==
    /\ channel \in {[n |-> n, off |-> 0, rich |-> FALSE] : n \in 0..MaxHistory}
    /\ trigger = WellFormedTrigger
    /\ parked = {}
    /\ limit \in FetchLimits
    /\ pc = "fetch"
    /\ Fresh
    /\ ServerFresh

NextFetch == fetchChannelMessages \/ Fetch_Page \/ Fetch_PageFail

\* fetchChannelMessages alone, for every history size and page size
SpecFetch == InitFetch /\ [][NextFetch]_vars

(***************************************************************************)
(* migrateChannel.  One action per stretch of code between two awaits.     *)
(***************************************************************************)
\* mutant: the reversal is forgotten
Reverse_forgotten(s) == s

Reverse(s) == [j \in 1..Len(s) |-> s[Len(s) + 1 - j]]

Event(status, processed, total, st) ==
    [status |-> status, processed |-> processed, total |-> total, stats |-> st]

FetchingEvent == Event("fetching", -1, -1, NoStats)
ProcessingEvent(processed, total) == Event("processing", processed, total, NoStats)
CompletedEvent(st) == Event("completed", -1, -1, st)
ErrorEvent == Event("error", -1, -1, NoStats)

\* a fault may be injected: anywhere / while message idx is processed
MayFault == faults < MaxFaults
MayFaultAt(idx) == faults < MaxFaults /\ idx <= FaultWindow

\* onProgress(event): the caller's sink returns or throws
SinkThrows(allowed) == IF allowed THEN {FALSE, TRUE} ELSE {FALSE}

Bump(thr) == faults' = IF thr THEN faults + 1 ELSE faults

FileError(id, url, err) ==
    [messageId |-> id, hasUrl |-> TRUE, url |-> url, error |-> err]
MessageError(id, err) ==
    [messageId |-> id, hasUrl |-> FALSE, url |-> <<>>, error |-> err]
PushError(st, rec) == [st EXCEPT !.errors = Append(@, rec)]

\* the message being processed
message == MessageOf(channel, messages[i])

\* catch (error) { onProgress({ status: 'error', ... }); throw error; }
OuterCatch(evs) ==
    /\ events' = Append(evs, ErrorEvent)
    /\ result' = "rejected"
    /\ pc' = "done"

\* mutant: a message-level failure is recorded and ends the loop
MessageCatch_aborts(st, err) ==
    /\ stats' = PushError(st, MessageError(MessageOf(channel, messages[i]).id, err))
    /\ i' = i
    /\ pc' = "done"
    /\ messageData' = messageData

\* catch (messageError) { stats.errors.push({ messageId, error }) } and i++
MessageCatch(st, err) ==
    /\ stats' = PushError(st, MessageError(message.id, err))
    /\ i' = i + 1
    /\ pc' = "loop"
    /\ messageData' = messageData

\* the end of one iteration of the file loop: the next url, or, after the
\* last one, the rewriting and the post request
AfterFile(st, map) ==
    /\ urlMap' = map
    /\ k' = k + 1
    /\ IF k < Len(fileUrls)
       THEN /\ pc' = "file"
            /\ stats' = st
            /\ UNCHANGED <<i, messageData>>
       ELSE IF map = <<>>
       THEN /\ pc' = "await_post"
            /\ stats' = st
            /\ UNCHANGED <<i, messageData>>
       ELSE LET replacedMessage == replaceUrlsInMessage(message, map) IN
            IF replacedMessage.threw
            THEN MessageCatch(st, "rewrite")
            ELSE /\ messageData' = [messageData EXCEPT
                                      !.content = replacedMessage.content,
                                      !.embeds = replacedMessage.embeds]
                 /\ pc' = "await_post"
                 /\ stats' = st
                 /\ i' = i

\* mutant: a file-level failure is recorded and the rest of the message is
\* given up
FileCatch_escapes(st, map, err) ==
    /\ stats' = PushError(st, FileError(message.id, fileUrls[k], err))
    /\ urlMap' = map
    /\ k' = k
    /\ i' = i + 1
    /\ pc' = "loop"
    /\ messageData' = messageData

\* mutant: a failed transfer is taken back out of filesProcessed
FileCatch_uncounts(st, map, err) ==
    AfterFile(PushError([st EXCEPT !.filesProcessed = @ - 1],
                        FileError(MessageOf(channel, messages[i]).id, fileUrls[k], err)),
              map)

\* mutant: a failed transfer is recorded and the same url is tried again
FileCatch_retries(st, map, err) ==
    /\ stats' = PushError(st, FileError(MessageOf(channel, messages[i]).id,
                                        fileUrls[k], err))
    /\ urlMap' = map
    /\ pc' = "file"
    /\ UNCHANGED <<i, k, messageData>>

\* catch (fileError) { stats.errors.push({ messageId, url, error }) }
FileCatch(st, map, err) ==
    AfterFile(PushError(st, FileError(message.id, fileUrls[k], err)), map)

\* onProgress({ status: 'fetching' }), then the call of fetchChannelMessages
Migrate_Start ==
    /\ pc = "idle"
    /\ \E thr \in SinkThrows(MayFault) :
         /\ Bump(thr)
         /\ IF thr THEN OuterCatch(Append(events, FetchingEvent))
            ELSE /\ events' = Append(events, FetchingEvent)
                 /\ pc' = "fetch"
                 /\ result' = result
    /\ UNCHANGED <<srvVars, channel, trigger, parked, limit, fetchVars, loopVars, stats, envVars>>

\* the await of fetchChannelMessages rejects
Migrate_FetchThrew ==
    /\ pc = "fetch_threw"
    /\ OuterCatch(events)
    /\ UNCHANGED <<srvVars, channel, trigger, parked, limit, faults, fetchVars, loopVars, stats, envVars>>

\* messages.reverse(), the first 'processing' event, the new stats
Migrate_Fetched ==
    /\ pc = "fetched"
    /\ messages' = Reverse(messages)
    /\ \E thr \in SinkThrows(MayFault) :
         /\ Bump(thr)
         /\ IF thr
            THEN /\ OuterCatch(Append(events, ProcessingEvent(0, Len(messages))))
                 /\ UNCHANGED <<stats, i>>
            ELSE /\ events' = Append(events, ProcessingEvent(0, Len(messages)))
                 /\ stats' = [NoStats EXCEPT !.totalMessages = Len(messages)]
                 /\ i' = 1
                 /\ pc' = "loop"
                 /\ result' = result
    /\ UNCHANGED <<srvVars, channel, trigger, parked, limit, lastMessageId, pages, fetchFailed,
                   fileUrls, k, urlMap, messageData, storedName, envVars>>

\* the head of the loop body: extractFileUrls, messageData, and either the
\* first file or the post request
Migrate_Message ==
    /\ pc = "loop"
    /\ i <= Len(messages)
    /\ LET extracted == extractFileUrls(message) IN
         IF extracted.threw
         THEN /\ MessageCatch(stats, "extract")
              /\ UNCHANGED <<fileUrls, k, urlMap>>
         ELSE /\ fileUrls' = extracted.urls
              /\ urlMap' = <<>>
              /\ messageData' =
                    [content    |-> message.content,
                     embeds     |-> message.embeds,
                     username   |-> IF message.author.username # ""
                                    THEN message.author.username
                                    ELSE "Migrated User",
                     avatar_url |-> IF message.author.avatar # ""
                                    THEN <<"avatars", message.author.id,
                                           message.author.avatar>>
                                    ELSE <<>>]
              /\ i' = i
              /\ IF Len(extracted.urls) > 0
                 THEN /\ stats' = [stats EXCEPT !.messagesWithFiles = @ + 1]
                      /\ k' = 1
                      /\ pc' = "file"
                 ELSE /\ stats' = stats
                      /\ k' = 0
                      /\ pc' = "await_post"
    /\ UNCHANGED <<srvVars, channel, trigger, parked, limit, faults, fetchVars, storedName, events, result,
                   envVars>>

\* one url: filesProcessed++, the progress event, the download request
Migrate_File ==
    /\ pc = "file"
    /\ \E thr \in SinkThrows(MayFaultAt(i)) :
         /\ Bump(thr)
         /\ events' = Append(events, ProcessingEvent(i, Len(messages)))
         /\ LET st == [stats EXCEPT !.filesProcessed = @ + 1] IN
              IF thr
              THEN /\ FileCatch(st, urlMap, "sink")
                   /\ skipped' = skipped \cup {[msg |-> message.id, url |-> fileUrls[k]]}
                   /\ dlLog' = dlLog
              ELSE /\ stats' = st
                   /\ dlLog' = Append(dlLog, [msg |-> message.id, url |-> fileUrls[k]])
                   /\ pc' = "await_download"
                   /\ UNCHANGED <<skipped, i, k, urlMap, messageData>>
    /\ UNCHANGED <<srvVars, channel, trigger, parked, limit, fetchVars, fileUrls, storedName, result,
                   regLog, failLog, postLog, disk, db, nextStored>>

\* downloadFile resolves; uploadToStorage names the file, opens the write
\* stream and awaits the pipeline
Download_OK ==
    /\ pc = "await_download"
    /\ storedName' = ToString(nextStored)
    /\ nextStored' = nextStored + 1
    /\ disk' = disk \cup {ToString(nextStored)}
    /\ pc' = "await_write"
    /\ UNCHANGED <<srvVars, channel, trigger, parked, limit, faults, fetchVars, i, fileUrls, k, urlMap,
                   messageData, outVars, dlLog, regLog, failLog, postLog, skipped, db>>

Failed(stage) == Append(failLog, [msg |-> message.id, url |-> fileUrls[k], stage |-> stage])

\* downloadFile rejects (timeout, non-success status)
Download_Fail ==
    /\ pc = "await_download"
    /\ MayFaultAt(i)
    /\ faults' = faults + 1
    /\ failLog' = Failed("download")
    /\ FileCatch(stats, urlMap, "download")
    /\ UNCHANGED <<srvVars, channel, trigger, parked, limit, fetchVars, fileUrls, storedName, events, result,
                   dlLog, regLog, postLog, skipped, disk, db, nextStored>>

\* `${baseUrl}/download/${storedName}`
downloadUrl(name) == <<"D", name>>

\* the pipeline resolves and dbOperations.insertFile returns
Write_OK ==
    /\ pc = "await_write"
    /\ db' = Append(db, [storedName |-> storedName, downloadUrl |-> downloadUrl(storedName)])
    /\ regLog' = Append(regLog, [msg |-> message.id, url |-> fileUrls[k], ok |-> TRUE,
                                 newUrl |-> downloadUrl(storedName)])
    /\ AfterFile([stats EXCEPT !.filesUploaded = @ + 1],
                 MapSet(urlMap, fileUrls[k], downloadUrl(storedName)))
    /\ UNCHANGED <<srvVars, channel, trigger, parked, limit, faults, fetchVars, fileUrls, storedName, events,
                   result, dlLog, failLog, postLog, skipped, disk, nextStored>>

\* the pipeline rejects (the download stream or the write fails)
Write_Fail ==
    /\ pc = "await_write"
    /\ MayFaultAt(i)
    /\ faults' = faults + 1
    /\ failLog' = Failed("write")
    /\ FileCatch(stats, urlMap, "write")
    /\ UNCHANGED <<srvVars, channel, trigger, parked, limit, fetchVars, fileUrls, storedName, events, result,
                   dlLog, regLog, postLog, skipped, disk, db, nextStored>>

\* the pipeline resolves and dbOperations.insertFile throws
Insert_Fail ==
    /\ pc = "await_write"
    /\ MayFaultAt(i)
    /\ faults' = faults + 1
    /\ regLog' = Append(regLog, [msg |-> message.id, url |-> fileUrls[k], ok |-> FALSE,
                                 newUrl |-> <<>>])
    /\ failLog' = Failed("insert")
    /\ FileCatch(stats, urlMap, "insert")
    /\ UNCHANGED <<srvVars, channel, trigger, parked, limit, fetchVars, fileUrls, storedName, events, result,
                   dlLog, postLog, skipped, disk, db, nextStored>>

Posted(ok) ==
    Append(postLog, [msg |-> message.id, ok |-> ok,
                     content |-> messageData.content, embeds |-> messageData.embeds])

\* postWebhookMessage resolves: messagesPosted++, the progress event, the delay
Post_OK ==
    /\ pc = "await_post"
    /\ postLog' = Posted(TRUE)
    /\ events' = Append(events, ProcessingEvent(i, Len(messages)))
    /\ \E thr \in SinkThrows(MayFaultAt(i)) :
         /\ Bump(thr)
         /\ LET st == [stats EXCEPT !.messagesPosted = @ + 1] IN
              IF thr THEN MessageCatch(st, "sink")
              ELSE /\ stats' = st
                   /\ pc' = "await_delay"
                   /\ UNCHANGED <<i, messageData>>
    /\ UNCHANGED <<srvVars, channel, trigger, parked, limit, fetchVars, fileUrls, k, urlMap, storedName, result,
                   dlLog, regLog, failLog, skipped, disk, db, nextStored>>

\* mutant: a refused post takes the message's files back out of storage
Post_Fail_rollback ==
    /\ pc = "await_post"
    /\ MayFaultAt(i)
    /\ faults' = faults + 1
    /\ postLog' = Posted(FALSE)
    /\ LET mine == {urlMap[j].newUrl : j \in 1..Len(urlMap)} IN
         /\ db' = SelectSeq(db, LAMBDA row : row.downloadUrl \notin mine)
         /\ disk' = {name \in disk : downloadUrl(name) \notin mine}
         /\ MessageCatch([stats EXCEPT !.filesUploaded = @ - Len(urlMap)], "post")
    /\ UNCHANGED <<srvVars, channel, trigger, parked, limit, fetchVars, fileUrls, k, urlMap,
                   storedName, events, result, dlLog, regLog, failLog, skipped,
                   nextStored>>

\* postWebhookMessage rejects
Post_Fail ==
    /\ pc = "await_post"
    /\ MayFaultAt(i)
    /\ faults' = faults + 1
    /\ postLog' = Posted(FALSE)
    /\ MessageCatch(stats, "post")
    /\ UNCHANGED <<srvVars, channel, trigger, parked, limit, fetchVars, fileUrls, k, urlMap, storedName, events,
                   result, dlLog, regLog, failLog, skipped, disk, db, nextStored>>

\* mutant: the timer of the pacing delay never fires
Delay_Done_unresolved ==
    /\ pc = "await_delay"
    /\ UNCHANGED vars

\* await new Promise(resolve => setTimeout(resolve, 500)); i++
Delay_Done ==
    /\ pc = "await_delay"
    /\ i' = i + 1
    /\ pc' = "loop"
    /\ UNCHANGED <<srvVars, channel, trigger, parked, limit, faults, fetchVars, fileUrls, k, urlMap, messageData,
                   storedName, outVars, envVars>>

\* after the loop: the 'completed' event and the return
Migrate_Complete ==
    /\ pc = "loop"
    /\ i > Len(messages)
    /\ \E thr \in SinkThrows(MayFault) :
         /\ Bump(thr)
         /\ IF thr THEN OuterCatch(Append(events, CompletedEvent(stats)))
            ELSE /\ events' = Append(events, CompletedEvent(stats))
                 /\ result' = "resolved"
                 /\ pc' = "done"
    /\ UNCHANGED <<srvVars, channel, trigger, parked, limit, fetchVars, loopVars, stats, envVars>>

\* the channels migrated: short histories built from the templates, and
\* plain histories of exactly one page, of one page and one message, and
\* of exactly two pages
Channels ==
    {[n |-> 0, off |-> 0, rich |-> TRUE]}
    \cup {[n |-> n, off |-> o, rich |-> TRUE] :
             n \in 1..MaxMsgs, o \in 0..(Len(Templates) - 1)}
    \cup {[n |-> n, off |-> 0, rich |-> FALSE] : n \in {FullPage, FullPage + 1, 2 * FullPage}}

\* triggers that the trigger contract rules out: no channel id, a channel
\* id or a thread id that is no number, a thread id in place of the missing
\* channel id, a destination that is no webhook url (another host; a
\* webhook path with no numeric id)
MalformedTriggers ==
    {Trigger(<<>>, <<>>, WebhookUrl),
     Trigger(<<"a", "1">>, <<>>, WebhookUrl),
     Trigger(<<"1", "2">>, <<"b">>, WebhookUrl),
     Trigger(<<>>, <<"2", "1">>, WebhookUrl),
     Trigger(<<"1", "2">>, <<>>, <<"N", "a">>),
     Trigger(<<"1", "2">>, <<>>, <<"W", "a", "/", "a">>)}

\* the channels the malformed triggers are tried on: one plain message, one
\* message with an attachment
TriggerChannels == {[n |-> 1, off |-> o, rich |-> TRUE] : o \in {0, 1}}

Init ==
    /\ \/ channel \in Channels /\ trigger = WellFormedTrigger
       \/ channel \in TriggerChannels /\ trigger \in MalformedTriggers
    /\ parked = {}
    /\ limit = DefaultLimit
    /\ pc = "idle"
    /\ Fresh
    /\ ServerFresh

Next ==
    \/ Migrate_Start
    \/ fetchChannelMessages
    \/ Fetch_Page
    \/ Fetch_PageFail
    \/ Migrate_FetchThrew
    \/ Migrate_Fetched
    \/ Migrate_Message
    \/ Migrate_File
    \/ Download_OK
    \/ Download_Fail
    \/ Write_OK
    \/ Write_Fail
    \/ Insert_Fail
    \/ Post_OK
    \/ Post_Fail
    \/ Delay_Done
    \/ Migrate_Complete

Spec == Init /\ [][Next]_vars

\* Every await of the run settles (the request answers or fails, the timer
\* fires) and the event loop then runs the continuation: a step of the run
\* that stays possible is taken.
\* The runs whose termination is checked: the histories of one, two and
\* three pages, and every kind of message as a history of its own.
LiveChannels == {c \in Channels : ~c.rich \/ c.n <= 1}

InitLive ==
    /\ \/ channel \in LiveChannels /\ trigger = WellFormedTrigger
       \/ channel \in TriggerChannels /\ trigger \in MalformedTriggers
    /\ parked = {}
    /\ limit = DefaultLimit
    /\ pc = "idle"
    /\ Fresh
    /\ ServerFresh

SpecLive == InitLive /\ [][Next]_vars /\ WF_vars(Next)

(***************************************************************************)
(* Two calls of migrateChannel in one process.  The variables hold the     *)
(* locals of the call that is running; the locals of the other call, which *)
(* waits at one of its awaits, are parked.  The uploads directory, the     *)
(* files table and the source of stored names belong to the process.       *)
(***************************************************************************)
RunLocals ==
    [channel |-> channel, trigger |-> trigger, limit |-> limit, pc |-> pc,
     messages |-> messages, lastMessageId |-> lastMessageId, pages |-> pages,
     fetchFailed |-> fetchFailed, i |-> i, fileUrls |-> fileUrls, k |-> k,
     urlMap |-> urlMap, messageData |-> messageData, storedName |-> storedName,
     stats |-> stats, events |-> events, result |-> result,
     dlLog |-> dlLog, regLog |-> regLog, failLog |-> failLog, postLog |-> postLog,
     skipped |-> skipped]

\* where a call can be when another one runs: not yet called, at an await,
\* or over
SwitchPoints ==
    {"idle", "await_page", "fetched", "fetch_threw", "await_download", "await_write",
     "await_post", "await_delay", "done"}

\* everything of a call but its stats
ResumeFrame(other) ==
    /\ parked' = {RunLocals}
    /\ channel' = other.channel /\ trigger' = other.trigger /\ limit' = other.limit
    /\ pc' = other.pc /\ messages' = other.messages
    /\ lastMessageId' = other.lastMessageId /\ pages' = other.pages
    /\ fetchFailed' = other.fetchFailed /\ i' = other.i
    /\ fileUrls' = other.fileUrls /\ k' = other.k /\ urlMap' = other.urlMap
    /\ messageData' = other.messageData /\ storedName' = other.storedName
    /\ events' = other.events /\ result' = other.result
    /\ dlLog' = other.dlLog /\ regLog' = other.regLog /\ failLog' = other.failLog
    /\ postLog' = other.postLog /\ skipped' = other.skipped
    /\ UNCHANGED <<srvVars, faults, disk, db, nextStored>>

\* mutant: stats is one accumulator of the module, not a local of the call
Switch_sharedStats ==
    /\ pc \in SwitchPoints
    /\ \E other \in parked :
          /\ other.pc # "done"
          /\ ResumeFrame(other)
          /\ stats' = stats

\* the running call reaches an await (or its end) and the other call resumes:
\* const stats = { ... } is a local of each call
Switch ==
    /\ pc \in SwitchPoints
    /\ \E other \in parked :
          /\ other.pc # "done"
          /\ ResumeFrame(other)
          /\ stats' = other.stats

\* the first call migrates a message with one attachment, or a plain one;
\* the second a message with two urls
InitTwo ==
    /\ channel \in {[n |-> 1, off |-> o, rich |-> TRUE] : o \in {0, 1}}
    /\ trigger = WellFormedTrigger
    /\ limit = DefaultLimit
    /\ pc = "idle"
    /\ Fresh
    /\ ServerFresh
    /\ parked = {[RunLocals EXCEPT !.channel = [n |-> 1, off |-> 3, rich |-> TRUE]]}

NextTwo == Next \/ Switch

SpecTwo == InitTwo /\ [][NextTwo]_vars

(***************************************************************************)
(* extractFileUrls and replaceUrlsInMessage on their own: one message      *)
(* (messages[1] of a one-message channel) and a url map, drawn from        *)
(* bounded sets.                                                           *)
(***************************************************************************)
PureUrls == {U1, U2, U1q, X1}

MapEntry(u, j) == [oldUrl |-> u, newUrl |-> downloadUrl(ToString(j))]

PureMaps ==
    {<<>>}
    \cup {<<MapEntry(u, 1)>> : u \in PureUrls}
    \cup UNION {{<<MapEntry(u, 1), MapEntry(v, 2)>> : v \in PureUrls \ {u}} :
                   u \in PureUrls}

Pure_extract ==
    /\ pc = "pure"
    /\ LET extracted == extractFileUrls(message) IN
         /\ fileUrls' = extracted.urls
         /\ pc' = IF extracted.threw THEN "extract_threw" ELSE "extracted"
    /\ UNCHANGED <<srvVars, channel, trigger, parked, limit, faults, fetchVars, i, k, urlMap, messageData,
                   storedName, outVars, envVars>>

Pure_replace ==
    /\ pc = "pure"
    /\ LET replacedMessage == replaceUrlsInMessage(message, urlMap) IN
         /\ messageData' = [messageData EXCEPT !.content = replacedMessage.content,
                                               !.embeds = replacedMessage.embeds]
         /\ pc' = IF replacedMessage.threw THEN "replace_threw" ELSE "replaced"
    /\ UNCHANGED <<srvVars, channel, trigger, parked, limit, faults, fetchVars, i, fileUrls, k, urlMap,
                   storedName, outVars, envVars>>

InitPure ==
    /\ channel \in {[n |-> 1, off |-> o, rich |-> TRUE] : o \in 0..(Len(Templates) - 1)}
    /\ trigger = WellFormedTrigger
    /\ parked = {}
    /\ limit = DefaultLimit
    /\ pc = "pure"
    /\ messages = <<1>> /\ i = 1
    /\ urlMap \in PureMaps
    /\ lastMessageId = 0 /\ pages = 0 /\ fetchFailed = FALSE /\ faults = 0
    /\ fileUrls = <<>> /\ k = 0
    /\ messageData = NoMessageData /\ storedName = ""
    /\ stats = NoStats /\ events = <<>> /\ result = "pending"
    /\ dlLog = <<>> /\ regLog = <<>> /\ failLog = <<>> /\ postLog = <<>>
    /\ skipped = {} /\ disk = {} /\ db = <<>> /\ nextStored = 1
    /\ ServerFresh

NextPure == Pure_extract \/ Pure_replace

SpecPure == InitPure /\ [][NextPure]_vars

(***************************************************************************)
(* Properties.                                                             *)
(***************************************************************************)
\* what extractFileUrls gives for each template, and for message m of the
\* channel (a message is its template plus its id, which extraction does
\* not read)
TemplateIndex(m) ==
    IF channel.rich THEN ((m - 1 + channel.off) % Len(Templates)) + 1 ELSE 1
ExtractedOf == [tp \in 1..Len(Templates) |-> extractFileUrls(Templates[tp])]
Extracted(m) == ExtractedOf[TemplateIndex(m)]

\* message m has been left behind by the loop
Done(m) == \E j \in 1..Len(messages) : j < i /\ messages[j] = m

\* the error records of message m with / without a url
UrlErrors(m, u) ==
    {j \in 1..Len(stats.errors) :
        stats.errors[j].hasUrl /\ stats.errors[j].messageId = m
                               /\ stats.errors[j].url = u}
MessageErrors(m) ==
    {j \in 1..Len(stats.errors) :
        ~stats.errors[j].hasUrl /\ stats.errors[j].messageId = m}

PostAttempts(m) == {p \in 1..Len(postLog) : postLog[p].msg = m}
Downloads(m, u) == {d \in 1..Len(dlLog) : dlLog[d].msg = m /\ dlLog[d].url = u}

\* message m went through the loop body: it was posted (or the post was
\* refused), or a message-level failure was recorded for it
Processed(m) == PostAttempts(m) # {} \/ MessageErrors(m) # {}

Statuses(status) == {j \in 1..Len(events) : events[j].status = status}

\* C1: the webhook posts of a run are attempted in strictly increasing
\* original send order (message ids grow with send time), whatever the
\* number of pages the history came in.
C1_PostsInSendOrder ==
    \A p \in 1..(Len(postLog) - 1) : postLog[p].msg < postLog[p + 1].msg

C1_Witness ==
    /\ pc = "done"
    /\ pages = 2
    /\ channel.n = FullPage + 1
    /\ Len(postLog) = channel.n
    /\ postLog[1].msg = 1

\* C2: with the default page size, fetchChannelMessages returns every
\* message of the channel exactly once, for every history size (the empty
\* history and exact multiples of the page size included).
C2_FetchReturnsAll ==
    (pc = "fetched" /\ limit = DefaultLimit) =>
        /\ Len(messages) = channel.n
        /\ \A id \in 1..channel.n :
              Cardinality({j \in 1..Len(messages) : messages[j] = id}) = 1

C2_Witness ==
    /\ pc = "fetched"
    /\ limit = DefaultLimit
    /\ channel.n = 2 * FullPage
    /\ pages = 3
    /\ Len(messages) = channel.n

\* C3: once a page request has failed, nothing is downloaded, written,
\* registered or posted and no 'completed' event is emitted; the run ends
\* rejected with exactly one 'error' event.
C3_PageFailureAborts ==
    fetchFailed =>
        /\ dlLog = <<>> /\ regLog = <<>> /\ postLog = <<>>
        /\ disk = {} /\ db = <<>>
        /\ stats = NoStats
        /\ Statuses("completed") = {}
        /\ result # "resolved"
        /\ pc \in {"fetch_threw", "done"}
        /\ pc = "done" => /\ Cardinality(Statuses("error")) = 1
                          /\ result = "rejected"

\* a later page fails after the first page was received
C3_Witness ==
    /\ fetchFailed
    /\ pc = "done"
    /\ pages = 1
    /\ channel.n >= FullPage

C5_MessageFailureIsolated ==
    /\ \A p \in 1..Len(postLog) :
          ~postLog[p].ok => Cardinality(MessageErrors(postLog[p].msg)) = 1
    /\ \A j \in 1..Len(messages) :
          (j < i /\ Extracted(messages[j]).threw) =>
              Cardinality(MessageErrors(messages[j])) = 1
    /\ (pc = "done" /\ \E e \in 1..Len(stats.errors) : ~stats.errors[e].hasUrl) =>
          /\ i = channel.n + 1
          /\ \A m \in 1..channel.n : Processed(m)
          /\ Statuses("completed") # {}

\* a post is refused, and a later message is posted
C5_Witness ==
    /\ pc = "done"
    /\ \E p, q \in 1..Len(postLog) :
          /\ ~postLog[p].ok
          /\ postLog[q].ok
          /\ postLog[q].msg > postLog[p].msg
          /\ Cardinality(MessageErrors(postLog[p].msg)) = 1

Terminal(e) == e.status \in {"completed", "error"}

\* C6: a run emits exactly one terminal event ('completed' or 'error'),
\* never both, and no event after it.
C6_OneTerminalEvent ==
    /\ \A j \in 1..(Len(events) - 1) : ~Terminal(events[j])
    /\ pc = "done" => (events # <<>> /\ Terminal(events[Len(events)]))

\* C7: a throwing sink changes nothing: no transfer is skipped, no posted
\* message is recorded as failed, and a run whose history was fetched posts
\* every message that can be posted and completes.
C7_SinkFailureHarmless ==
    /\ skipped = {}
    /\ \A p \in 1..Len(postLog) :
          postLog[p].ok => MessageErrors(postLog[p].msg) = {}
    /\ (pc = "done" /\ ~fetchFailed) =>
          /\ result = "resolved"
          /\ Statuses("completed") # {}
          /\ \A m \in 1..channel.n : Processed(m)

(***************************************************************************)
(* Reference definitions that the claims are stated against.               *)
(***************************************************************************)
\* every url occurrence of a message, in the order the locations are
\* scanned: attachments, then per embed image, thumbnail, video, field
\* values and description, then the content
NonEmpty(u) == IF u = <<>> THEN <<>> ELSE <<u>>

RECURSIVE FlatMatches(_)
FlatMatches(fields) ==
    IF fields = <<>> THEN <<>>
    ELSE DISCORD_CDN_REGEX(Head(fields).value) \o FlatMatches(Tail(fields))

RECURSIVE EmbedOccurrences(_)
EmbedOccurrences(embeds) ==
    IF embeds = <<>> THEN <<>>
    ELSE NonEmpty(Head(embeds).image) \o NonEmpty(Head(embeds).thumbnail)
         \o NonEmpty(Head(embeds).video) \o FlatMatches(Head(embeds).fields)
         \o DISCORD_CDN_REGEX(Head(embeds).description)
         \o EmbedOccurrences(Tail(embeds))

Occurrences(msg) ==
    [j \in 1..Len(msg.attachments) |-> msg.attachments[j].url]
    \o EmbedOccurrences(msg.embeds) \o DISCORD_CDN_REGEX(msg.content)

\* s without its empty elements and without the repetitions of earlier ones
FirstAppearances(s) ==
    SelectSeq([j \in 1..Len(s) |->
                 IF s[j] = <<>> \/ \E h \in 1..(j - 1) : s[h] = s[j]
                 THEN <<>> ELSE s[j]],
              LAMBDA u : u # <<>>)

OccursAt(t, p, u) ==
    /\ u # <<>>
    /\ p + Len(u) - 1 <= Len(t)
    /\ SubSeq(t, p, p + Len(u) - 1) = u

RECURSIVE RefReplaceFrom(_, _, _)
\* t from position p on, every occurrence of a mapped url replaced by that
\* url's own destination (the longest mapped url where several occur at one
\* place), every other character kept
RefReplaceFrom(t, p, map) ==
    IF p > Len(t) THEN <<>>
    ELSE LET hits == {j \in 1..Len(map) : OccursAt(t, p, map[j].oldUrl)} IN
         IF hits = {} THEN <<t[p]>> \o RefReplaceFrom(t, p + 1, map)
         ELSE LET j == CHOOSE x \in hits :
                          \A h \in hits : Len(map[h].oldUrl) <= Len(map[x].oldUrl)
              IN  map[j].newUrl \o RefReplaceFrom(t, p + Len(map[j].oldUrl), map)

RefReplace(t, map) == RefReplaceFrom(t, 1, map)

RefEmbed(embed, map) ==
    [image       |-> IF MapHas(map, embed.image) THEN MapGet(map, embed.image)
                     ELSE embed.image,
     thumbnail   |-> IF MapHas(map, embed.thumbnail) THEN MapGet(map, embed.thumbnail)
                     ELSE embed.thumbnail,
     video       |-> IF MapHas(map, embed.video) THEN MapGet(map, embed.video)
                     ELSE embed.video,
     fields      |-> [j \in 1..Len(embed.fields) |->
                        [embed.fields[j] EXCEPT !.value = RefReplace(@, map)]],
     description |-> RefReplace(embed.description, map)]

RefEmbeds(embeds, map) == [e \in 1..Len(embeds) |-> RefEmbed(embeds[e], map)]

\* C8: within one message no url is downloaded twice and none is registered
\* twice, and the urls extractFileUrls returned for it are the distinct urls
\* of the message in the order of their first appearance.
C8_EachUrlOnce ==
    /\ \A a, b \in 1..Len(dlLog) : a < b => dlLog[a] # dlLog[b]
    /\ \A a, b \in 1..Len(regLog) :
          a < b => ~(regLog[a].msg = regLog[b].msg /\ regLog[a].url = regLog[b].url)
    /\ pc \in {"file", "await_download", "await_write", "await_post", "await_delay"} =>
          fileUrls = FirstAppearances(Occurrences(message))

\* a url that occurs in several places of a message has been transferred
C8_Witness ==
    /\ pc = "await_post"
    /\ Len(Occurrences(message)) > Len(fileUrls)
    /\ \E r \in 1..Len(regLog) : regLog[r].msg = message.id /\ regLog[r].ok

\* the urls of message m that were transferred and registered, with their
\* destinations, in the order of the transfers
Transferred(m) ==
    LET rows == SelectSeq(regLog, LAMBDA r : r.msg = m /\ r.ok)
    IN  [j \in 1..Len(rows) |-> [oldUrl |-> rows[j].url, newUrl |-> rows[j].newUrl]]

\* C9: a message whose transfers failed is posted all the same, and every
\* posted payload is the original content and embeds with the urls that
\* were transferred replaced by their destinations and every other url,
\* the failed ones included, as in the original.
C9_PostedPayload ==
    /\ \A f \in 1..Len(failLog) :
          Done(failLog[f].msg) => PostAttempts(failLog[f].msg) # {}
    /\ \A p \in 1..Len(postLog) :
          LET original == MessageOf(channel, postLog[p].msg)
              map == Transferred(postLog[p].msg)
          IN  /\ postLog[p].content = RefReplace(original.content, map)
              /\ postLog[p].embeds = RefEmbeds(original.embeds, map)

\* C10: replaceUrlsInMessage replaces every occurrence of every mapped url,
\* in the content and in each embed's image, thumbnail, video, field values
\* and description, by that url's own destination, and changes nothing else.
C10_EveryOccurrenceReplaced ==
    pc = "replaced" =>
        /\ messageData.content = RefReplace(message.content, urlMap)
        /\ messageData.embeds = RefEmbeds(message.embeds, urlMap)

DistinctOf == [tp \in 1..Len(Templates) |-> FirstAppearances(Occurrences(Templates[tp]))]
DistinctUrls(m) == DistinctOf[TemplateIndex(m)]

RECURSIVE UrlsUpTo(_)
\* the number of distinct urls of the messages 1..m
UrlsUpTo(m) == IF m <= 0 THEN 0 ELSE Len(DistinctUrls(m)) + UrlsUpTo(m - 1)

Counters(st) == <<st.totalMessages, st.messagesWithFiles, st.filesProcessed,
                  st.filesUploaded, st.messagesPosted>>

IsPrefix(s, t) == Len(s) <= Len(t) /\ SubSeq(t, 1, Len(s)) = s

StatsConsistent ==
    /\ stats.filesUploaded <= stats.filesProcessed
    /\ stats.filesProcessed <= UrlsUpTo(Min(i, Len(messages)))
    /\ stats.messagesPosted <= stats.totalMessages
    /\ stats.messagesWithFiles <= stats.totalMessages

StatsGrow ==
    /\ \A c \in 1..5 : Counters(stats)[c] <= Counters(stats')[c]
    /\ IsPrefix(stats.errors, stats'.errors)

\* C12: in every state of a run filesUploaded <= filesProcessed <= the
\* number of distinct urls of the messages reached so far, messagesPosted
\* <= totalMessages and messagesWithFiles <= totalMessages; and no step
\* decreases a counter or removes or changes an error record.
C12_StatsMonotoneConsistent == []StatsConsistent /\ [][StatsGrow]_vars

\* one transfer failed, another succeeded, and messages were posted
C12_Witness ==
    /\ pc = "done"
    /\ 0 < stats.filesUploaded
    /\ stats.filesUploaded < stats.filesProcessed
    /\ 0 < stats.messagesPosted
    /\ stats.messagesPosted < stats.totalMessages
    /\ stats.errors # <<>>
\* the records of an error list with / without a url
UrlRecords(errs) == {j \in 1..Len(errs) : errs[j].hasUrl}
MessageRecords(errs) == {j \in 1..Len(errs) : ~errs[j].hasUrl}

\* the messages whose extraction threw
ExtractionThrew == {m \in 1..channel.n : Extracted(m).threw}
\* the messages with at least one extracted url
WithFiles ==
    {m \in 1..channel.n : ~Extracted(m).threw /\ Extracted(m).urls # <<>>}

RECURSIVE ExtractedUpTo(_)
ExtractedUpTo(m) ==
    IF m <= 0 THEN 0
    ELSE (IF Extracted(m).threw THEN 0 ELSE Len(Extracted(m).urls))
         + ExtractedUpTo(m - 1)

OkPosts == {p \in 1..Len(postLog) : postLog[p].ok}
FailedPosts == {p \in 1..Len(postLog) : ~postLog[p].ok}
OkRegistrations == {r \in 1..Len(regLog) : regLog[r].ok}

\* st agrees with what the run did
ReferenceCounts(st) ==
    /\ st.totalMessages = channel.n
    /\ st.messagesWithFiles = Cardinality(WithFiles)
    /\ st.filesProcessed = ExtractedUpTo(channel.n)
    /\ st.filesUploaded = Cardinality(OkRegistrations)
    /\ st.messagesPosted = Cardinality(OkPosts)
    /\ Cardinality(UrlRecords(st.errors)) = Len(failLog)
    /\ \A f \in 1..Len(failLog) :
          Cardinality({j \in UrlRecords(st.errors) :
                          /\ st.errors[j].messageId = failLog[f].msg
                          /\ st.errors[j].url = failLog[f].url}) = 1
    /\ Cardinality(MessageRecords(st.errors)) =
          Cardinality(FailedPosts) + Cardinality(ExtractionThrew)
    /\ st.filesProcessed - st.filesUploaded = Cardinality(UrlRecords(st.errors))
    /\ st.messagesPosted + Cardinality(MessageRecords(st.errors)) = st.totalMessages
    /\ (failLog = <<>> /\ FailedPosts = {} /\ ExtractionThrew = {}) =>
          /\ st.filesUploaded = st.filesProcessed
          /\ st.messagesPosted = channel.n
          /\ st.errors = <<>>

\* C13: the stats of the 'completed' event are the reference counts of the
\* run: totalMessages = N, messagesWithFiles, filesProcessed, filesUploaded
\* and messagesPosted as the run did them, one url record per failed
\* transfer and one url-less record per failed message and no other record,
\* so filesProcessed - filesUploaded = url records and messagesPosted +
\* url-less records = totalMessages; with no failure errors is empty.
C13_CompletedStats ==
    \A e \in Statuses("completed") : ReferenceCounts(events[e].stats)
Registrations(m, u) == {r \in 1..Len(regLog) : regLog[r].msg = m /\ regLog[r].url = u}

\* C14: no (message, url) is downloaded or registered more than once and no
\* message is posted more than once, whether the attempt failed or not;
\* each failed transfer has exactly one url record and each failed message
\* exactly one url-less record in stats.errors.
C14_NoRetry ==
    /\ \A d \in 1..Len(dlLog) : Cardinality(Downloads(dlLog[d].msg, dlLog[d].url)) = 1
    /\ \A r \in 1..Len(regLog) :
          Cardinality(Registrations(regLog[r].msg, regLog[r].url)) = 1
    /\ Cardinality({postLog[p].msg : p \in 1..Len(postLog)}) = Len(postLog)
    /\ \A f \in 1..Len(failLog) :
          /\ Cardinality({g \in 1..Len(failLog) :
                             /\ failLog[g].msg = failLog[f].msg
                             /\ failLog[g].url = failLog[f].url}) = 1
          /\ Cardinality(UrlErrors(failLog[f].msg, failLog[f].url)) = 1
    /\ \A p \in FailedPosts : Cardinality(MessageErrors(postLog[p].msg)) = 1
    /\ \A m \in ExtractionThrew :
          /\ Cardinality(MessageErrors(m)) <= 1
          /\ Done(m) => Cardinality(MessageErrors(m)) = 1

\* a download failed, a post failed, and the run went to its end
C14_Witness ==
    /\ pc = "done"
    /\ Statuses("completed") # {}
    /\ \E f \in 1..Len(failLog) : failLog[f].stage = "download"
    /\ FailedPosts # {}
\* C15: a run emits an 'error' event only if the history fetch failed; a
\* run whose history was fetched ends with a 'completed' event and without
\* an 'error' event, whatever fails afterwards.
C15_ErrorOnlyOnFetchFailure ==
    /\ Statuses("error") # {} => fetchFailed
    /\ (pc = "done" /\ ~fetchFailed) =>
          /\ Statuses("completed") # {}
          /\ result = "resolved"
\* the trigger contract: a numeric channel id, a webhook url of the
\* expected shape, a thread id that is numeric when there is one
Malformed ==
    \/ ~Snowflake(trigger.sourceChannelId)
    \/ parseWebhookUrl(trigger.targetWebhookUrl).threw
    \/ trigger.sourceThreadId # <<>> /\ ~Snowflake(trigger.sourceThreadId)

\* C16: a run with a malformed trigger requests no history page, downloads
\* and registers no file and posts no message, and ends rejected with
\* exactly one 'error' event.
C16_MalformedTriggerRejected ==
    Malformed =>
        /\ pc \notin {"fetch", "await_page", "fetched", "fetch_threw"}
        /\ pages = 0
        /\ dlLog = <<>> /\ regLog = <<>> /\ postLog = <<>>
        /\ disk = {} /\ db = <<>>
        /\ Statuses("completed") = {}
        /\ pc = "done" => /\ Cardinality(Statuses("error")) = 1
                          /\ result = "rejected"
InLoop == pc \in {"file", "await_download", "await_write", "await_post", "await_delay"}

\* the transfer of url u of message m is over: registered, failed or dropped
TransferOver(m, u) ==
    \/ Registrations(m, u) # {}
    \/ \E f \in 1..Len(failLog) : failLog[f].msg = m /\ failLog[f].url = u
    \/ [msg |-> m, url |-> u] \in skipped

\* the messages for which a download, a storage write or a post has started
Started ==
    {dlLog[d].msg : d \in 1..Len(dlLog)} \cup {regLog[r].msg : r \in 1..Len(regLog)}
    \cup {postLog[p].msg : p \in 1..Len(postLog)}
    \cup (IF pc \in {"await_download", "await_write", "await_post"}
          THEN {messages[i]} ELSE {})

OneAtATime ==
    /\ \A m \in Started : \A m2 \in 1..(m - 1) :
          /\ Processed(m2)
          /\ ~(pc = "await_delay" /\ messages[i] = m2)
    /\ InLoop => \A m \in Started : m <= messages[i]
    /\ pc \in {"await_download", "await_write"} =>
          /\ \A x \in 1..(k - 1) : TransferOver(messages[i], fileUrls[x])
          /\ ~TransferOver(messages[i], fileUrls[k])
          /\ \A x \in (k + 1)..Len(fileUrls) : Downloads(messages[i], fileUrls[x]) = {}
          /\ PostAttempts(messages[i]) = {}
    /\ pc = "await_post" =>
          /\ \A x \in 1..Len(fileUrls) : TransferOver(messages[i], fileUrls[x])
          /\ PostAttempts(messages[i]) = {}

\* the loop leaves a message whose post succeeded only through the delay
PacingAwaited ==
    (/\ i >= 1 /\ i <= Len(messages) /\ i' = i + 1
     /\ \E p \in 1..Len(postLog') : postLog'[p].msg = messages[i] /\ postLog'[p].ok)
        => pc = "await_delay"

\* C17: processing is strictly sequential: nothing of a later message
\* starts before every earlier message's post attempt and, after a
\* successful post, its pacing delay have finished; within a message a
\* transfer starts only after the transfers before it are over, and the
\* post only after all of them are.
C17_StrictlySequential == []OneAtATime /\ [][PacingAwaited]_vars
\* both calls
Runs == {RunLocals} \cup parked

\* the stats of call r count what r itself did
OwnCounts(r) ==
    /\ r.stats.totalMessages \in {0, r.channel.n}
    /\ r.stats.filesProcessed = Len(r.dlLog) + Cardinality(r.skipped)
    /\ r.stats.filesUploaded = Cardinality({x \in 1..Len(r.regLog) : r.regLog[x].ok})
    /\ r.stats.messagesPosted = Cardinality({p \in 1..Len(r.postLog) : r.postLog[p].ok})
    /\ Cardinality(UrlRecords(r.stats.errors)) = Len(r.failLog) + Cardinality(r.skipped)
    /\ \A j \in 1..Len(r.stats.errors) : r.stats.errors[j].messageId \in 1..r.channel.n
    /\ \A e \in 1..Len(r.events) :
          r.events[e].status = "completed" =>
              /\ r.events[e].stats = r.stats
              /\ r.stats.totalMessages = r.channel.n

\* C18: when two runs interleave at their awaits, the counters and the
\* error list of each run, and so the stats of its 'completed' event,
\* count that run's own messages, transfers, posts and failures only.
C18_StatsPerRun == \A r \in Runs : OwnCounts(r)

\* both runs completed, and the transfers of one fell between the two
\* transfers of the other
C18_Witness ==
    /\ pc = "done"
    /\ \A r \in Runs : \E e \in 1..Len(r.events) : r.events[e].status = "completed"
    /\ \E r1, r2 \in Runs :
          /\ \E x \in 1..Len(r1.regLog) : r1.regLog[x].newUrl = downloadUrl("2")
          /\ \E x \in 1..Len(r2.regLog) : r2.regLog[x].newUrl = downloadUrl("1")
          /\ \E x \in 1..Len(r2.regLog) : r2.regLog[x].newUrl = downloadUrl("3")
          /\ r1.stats.filesUploaded = 1
          /\ r2.stats.filesUploaded = 2
\* u has the shape DISCORD_CDN_REGEX looks for
CdnShaped(u) == DISCORD_CDN_REGEX(u) # <<>>

\* C19: every url extractFileUrls returns has the shape of a file-hosting
\* url, wherever it stood in the message, and a url of another shape raises
\* no error (extraction throws only on a field value that is no string).
C19_OnlyCdnUrls ==
    /\ pc = "extracted" => \A x \in 1..Len(fileUrls) : CdnShaped(fileUrls[x])
    /\ pc = "extract_threw" =>
          \E e \in 1..Len(message.embeds) : \E f \in 1..Len(message.embeds[e].fields) :
              ~message.embeds[e].fields[f].isString

Ascending(s) == \A j \in 1..(Len(s) - 1) : s[j] < s[j + 1]
Descending(s) == \A j \in 1..(Len(s) - 1) : s[j] > s[j + 1]

Handled ==
    {postLog[p].msg : p \in OkPosts}
    \cup {stats.errors[j].messageId : j \in MessageRecords(stats.errors)}

\* C21: between the end of the handling of a message and the start of the
\* next one, the last event emitted is the 'processing' event with that
\* message's 1-based index and the total N; and no 'processing' event
\* carries a processed count above the number of messages handled so far.
C21_ProgressPerMessage ==
    /\ (pc = "loop" /\ i >= 2) =>
          events[Len(events)] = ProcessingEvent(i - 1, channel.n)
    /\ (events # <<>> /\ events[Len(events)].status = "processing") =>
          events[Len(events)].processed <= Cardinality(Handled)
\* the registrations of message m that succeeded
OkRegistrationsOf(m) == {r \in OkRegistrations : regLog[r].msg = m}

\* C22: when the post of message m fails after some of its files were
\* transferred, those files stay on disk and in the files table,
\* filesUploaded still counts them, exactly one message-level record is
\* added for m, and the run goes on to the following messages and to its
\* 'completed' event.
C22_NoRollback ==
    \A p \in FailedPosts :
        LET m == postLog[p].msg IN
        /\ \A r \in OkRegistrationsOf(m) :
              \E row \in 1..Len(db) :
                  /\ db[row].downloadUrl = regLog[r].newUrl
                  /\ db[row].storedName \in disk
        /\ stats.filesUploaded = Cardinality(OkRegistrations)
        /\ Cardinality(MessageErrors(m)) = 1
        /\ pc = "done" =>
              /\ \A m2 \in (m + 1)..channel.n : Processed(m2)
              /\ Statuses("completed") # {}

\* a message with a transferred file was refused, and the next was posted
C22_Witness ==
    /\ pc = "done"
    /\ \E p \in FailedPosts, q \in OkPosts :
          /\ OkRegistrationsOf(postLog[p].msg) # {}
          /\ postLog[q].msg = postLog[p].msg + 1
    /\ stats.filesUploaded >= 1
\* C26: for every page size limit in 1..100, fetchChannelMessages returns
\* the whole history: it goes on requesting pages until a page is empty or
\* shorter than the page size it asked for.
C26_CompleteForEveryLimit ==
    (pc = "fetched" /\ limit \in 1..MaxPageLimit) =>
        /\ Len(messages) = channel.n
        /\ \A id \in 1..channel.n :
              Cardinality({j \in 1..Len(messages) : messages[j] = id}) = 1
Contains(t, u) == \E p \in 1..Len(t) : OccursAt(t, p, u)

\* url u occurs in the payload of a post: in its content or in an embed's
\* image, thumbnail, video, field values or description
InPayload(post, u) ==
    \/ Contains(post.content, u)
    \/ \E e \in 1..Len(post.embeds) :
          LET embed == post.embeds[e] IN
          \/ Contains(embed.image, u)
          \/ Contains(embed.thumbnail, u)
          \/ Contains(embed.video, u)
          \/ Contains(embed.description, u)
          \/ \E f \in 1..Len(embed.fields) :
                embed.fields[f].isString /\ Contains(embed.fields[f].value, u)

\* C27: the payload of every successful post of a message contains the
\* destination url of every url of that message whose transfer succeeded,
\* the urls that occur only as an attachment of the message included.
C27_PostedPayloadNamesEveryFile ==
    \A r \in OkRegistrations : \A p \in OkPosts :
        postLog[p].msg = regLog[r].msg => InPayload(postLog[p], regLog[r].newUrl)
\* C29: outside of a write in progress, every file of the uploads directory
\* has its row in the files table: a transfer that failed left no file.
C29_NoOrphanFile ==
    pc # "await_write" =>
        \A name \in disk : \E row \in 1..Len(db) : db[row].storedName = name
\* the run has ended and a 'completed' or 'error' event was emitted
TerminalEmitted ==
    /\ pc = "done"
    /\ \E j \in 1..Len(events) : Terminal(events[j])

\* C30: when every await settles, every run of migrateChannel ends with a
\* terminal event emitted, and the pagination takes at most one page request
\* per full page of the history plus one.
C30_Terminates ==
    /\ <>TerminalEmitted
    /\ [](pages <= (channel.n \div FullPage) + 1)

\* a run over a history of three pages has ended with 'completed'
C30_Witness ==
    /\ TerminalEmitted
    /\ pages = 3
    /\ channel.n = 2 * FullPage
    /\ Statuses("completed") # {}
(***************************************************************************)
(* The server: the rate limiters of rate-limiter.js.  The migration is not *)
(* running; its variables stay as they are.                                *)
(***************************************************************************)
migrateVars == <<channel, trigger, parked, limit, pc, faults, fetchVars, loopVars, outVars,
                 dlLog, regLog, failLog, postLog, skipped>>

\* the migration has not been called
MigrateIdle ==
    /\ channel = [n |-> 0, off |-> 0, rich |-> TRUE]
    /\ trigger = WellFormedTrigger
    /\ parked = {}
    /\ limit = DefaultLimit
    /\ pc = "idle"
    /\ Fresh

\* const WINDOW_MS = 60 * 1000
WINDOW_MS == 60000
\* const MAX_REQUESTS = 60
MAX_REQUESTS == 60
\* const MAX_UPLOADS = 10
MAX_UPLOADS == 10

\* advances of the clock in one behaviour
MaxTicks == 2
\* requests a client goes on sending in a window once it is being refused
MaxRefused == 2
\* requests of the second client in a window
MaxOther == 2

IPs == {"a", "b"}

\* by how much the clock advances between two requests
TickSteps == {1, WINDOW_MS}

MapHasKey(map, key) == key \in DOMAIN map

\* rateLimitMap after one request of key: the first access, the expired
\* window, or record.count++
Counted(key) ==
    IF ~MapHasKey(rateLimitMap, key)
    THEN rateLimitMap @@ (key :> [count |-> 1, resetTime |-> now])
    ELSE IF now - rateLimitMap[key].resetTime > WINDOW_MS
    THEN [rateLimitMap EXCEPT ![key] = [count |-> 1, resetTime |-> now]]
    ELSE [rateLimitMap EXCEPT ![key].count = @ + 1]

\* done() is not called: if (record.count > MAX_REQUESTS) reply.code(429)
Limited(key, max) ==
    /\ MapHasKey(rateLimitMap, key)
    /\ ~(now - rateLimitMap[key].resetTime > WINDOW_MS)
    /\ rateLimitMap[key].count + 1 > max

\* the requests the clients of the model send: a client that is being
\* refused gives up after MaxRefused requests, the second client sends
\* MaxOther requests in a window
Sends(key, max, ip) ==
    (MapHasKey(rateLimitMap, key) /\ ~(now - rateLimitMap[key].resetTime > WINDOW_MS)) =>
        rateLimitMap[key].count < (IF ip = "a" THEN max + MaxRefused ELSE MaxOther)

\* the passes of the observed client within the observed interval
Observe(ip, passed) ==
    IF passed /\ observed.ip = ip /\ now - observed.start < WINDOW_MS
    THEN [observed EXCEPT !.passes = @ + 1]
    ELSE observed

\* rateLimiter(request, reply, done) for a download request of ip
rateLimiter(ip) ==
    /\ Sends(ip, MAX_REQUESTS, ip)
    /\ rateLimitMap' = Counted(ip)
    /\ LET passed == ~Limited(ip, MAX_REQUESTS) IN
         /\ reply' = [route |-> "download", status |-> IF passed THEN 200 ELSE 429]
         /\ observed' = Observe(ip, passed)
    /\ UNCHANGED <<now, ticks, API_KEY, fileCache, downloadStats, totalCacheSize, adding,
                   migrateVars, disk, db, nextStored>>

\* an interval of WINDOW_MS of client ip begins
Observe_Start(ip) ==
    /\ observed = Unobserved
    /\ observed' = [ip |-> ip, start |-> now, passes |-> 0]
    /\ UNCHANGED <<now, ticks, rateLimitMap, reply, API_KEY, fileCache, downloadStats,
                   totalCacheSize, adding, migrateVars, disk, db, nextStored>>

\* time passes
Tick ==
    /\ ticks < MaxTicks
    /\ \E d \in TickSteps : now' = now + d
    /\ ticks' = ticks + 1
    /\ UNCHANGED <<rateLimitMap, observed, reply, API_KEY, fileCache, downloadStats,
                   totalCacheSize, adding, migrateVars, disk, db, nextStored>>

\* setInterval(..., CLEANUP_INTERVAL): the records of expired windows go
RateCleanup ==
    /\ rateLimitMap' =
          [key \in {x \in DOMAIN rateLimitMap :
                       ~(now - rateLimitMap[x].resetTime > WINDOW_MS)} |->
              rateLimitMap[key]]
    /\ UNCHANGED <<now, ticks, observed, reply, API_KEY, fileCache, downloadStats,
                   totalCacheSize, adding, migrateVars, disk, db, nextStored>>

InitRate == MigrateIdle /\ ServerFresh

NextRate ==
    \/ \E ip \in IPs : rateLimiter(ip)
    \/ \E ip \in IPs : Observe_Start(ip)
    \/ Tick
    \/ RateCleanup

SpecRate == InitRate /\ [][NextRate]_vars

(***************************************************************************)
(* The server: POST /api/upload.                                           *)
(***************************************************************************)
\* files stored through the route in one behaviour
MaxUploads == 2

\* the x-api-key header (or apiKey query parameter) of a request: none,
\* the key of the deployment, another key
RequestKeys == {Unset, "k", "x"}

\* what the multipart body holds: no file, a file, a file whose stream breaks
Parts == {"none", "file", "broken"}

\* if (apiKey === API_KEY) return; return requireAuth(request, reply, ...)
preHandlerPasses(apiKey, session) == apiKey = API_KEY \/ session

\* the route: uploadRateLimiter, the key or session test, the handler
Upload(ip, apiKey, session, part) ==
    LET key == <<"upload", ip>>
        answer(status, stored) ==
            [route |-> "upload", status |-> status, apiKey |-> apiKey,
             session |-> session, stored |-> stored]
        name == ToString(nextStored)
    IN
    /\ Sends(key, MAX_UPLOADS, ip)
    /\ nextStored <= MaxUploads
    /\ rateLimitMap' = Counted(key)
    /\ IF Limited(key, MAX_UPLOADS)
       THEN /\ reply' = answer(429, "")
            /\ UNCHANGED <<disk, db, nextStored>>
       ELSE IF ~preHandlerPasses(apiKey, session)
       THEN /\ reply' = answer(401, "")
            /\ UNCHANGED <<disk, db, nextStored>>
       ELSE IF part = "none"
       THEN /\ reply' = answer(400, "")
            /\ UNCHANGED <<disk, db, nextStored>>
       ELSE /\ nextStored' = nextStored + 1
            /\ disk' = disk \cup {name}
            /\ IF part = "file"
               THEN /\ db' = Append(db, [storedName |-> name,
                                         downloadUrl |-> downloadUrl(name)])
                    /\ reply' = answer(201, name)
               ELSE /\ db' = db
                    /\ reply' = answer(500, name)
    /\ UNCHANGED <<now, ticks, observed, API_KEY, fileCache, downloadStats, totalCacheSize,
                   adding, migrateVars>>

InitUpload ==
    /\ MigrateIdle
    /\ ServerStarted
    /\ API_KEY \in {Unset, "k"}

NextUpload ==
    \/ \E ip \in IPs, apiKey \in RequestKeys, session \in BOOLEAN, part \in Parts :
          Upload(ip, apiKey, session, part)
    \/ Tick
    \/ RateCleanup

SpecUpload == InitUpload /\ [][NextUpload]_vars

(***************************************************************************)
(* The server: the hot cache of hot-cache.js.  fileCache is the list of    *)
(* its entries in insertion order, as Map iterates them.                   *)
(***************************************************************************)
\* const MAX_CACHE_SIZE_MB = 512
MAX_CACHE_SIZE_MB == 512
\* const MAX_FILE_SIZE_MB = 50
MAX_FILE_SIZE_MB == 50
\* const CACHE_HITS_TO_STORE = 3
CACHE_HITS_TO_STORE == 3
\* const maxAge = 30 * 60 * 1000
maxAge == 30 * 60 * 1000
\* hits < 10 in the periodic cleanup
KeptHits == 10

MB == 1024 * 1024

\* addToCache calls in flight at one time
MaxInFlight == 2
\* downloads of a file beyond those that start its caching
MaxExtra == 1
\* downloads served from the cache in one behaviour
MaxHits == 1
\* idle periods in one behaviour
MaxIdle == 1

\* the files of config/uploads, by size: one of 12 MB, eleven of 50 MB and
\* one of 51 MB
SmallFile == 1
LargeFile == 13
Files == SmallFile..LargeFile

SizeMB(f) == IF f = SmallFile THEN 12 ELSE IF f = LargeFile THEN 51 ELSE 50

statSize(f) == SizeMB(f) * MB

\* the files that are requested at any time
Requested == {LargeFile - 1, LargeFile}

RECURSIVE SumSizes(_)
SumSizes(entries) ==
    IF entries = <<>> THEN 0 ELSE Head(entries).size + SumSizes(Tail(entries))

RECURSIVE SumHits(_)
SumHits(entries) ==
    IF entries = <<>> THEN 0 ELSE Head(entries).hits + SumHits(Tail(entries))

\* fileCache.has(storedName)
CacheHas(cache, f) == \E j \in 1..Len(cache) : cache[j].name = f

CacheIndex(cache, f) == CHOOSE j \in 1..Len(cache) : cache[j].name = f

\* fileCache.delete(key)
CacheDelete(cache, f) == SelectSeq(cache, LAMBDA entry : entry.name # f)

\* fileCache.set(storedName, entry): a key that is present keeps its place
CacheSet(cache, entry) ==
    IF CacheHas(cache, entry.name)
    THEN [cache EXCEPT ![CacheIndex(cache, entry.name)] = entry]
    ELSE Append(cache, entry)

\* evictLeastUsed(): the first entry, in insertion order, of the least hits
leastUsed(cache) ==
    CHOOSE j \in 1..Len(cache) :
        /\ \A h \in 1..Len(cache) : cache[j].hits <= cache[h].hits
        /\ \A h \in 1..(j - 1) : cache[h].hits > cache[j].hits

\* s without its element at position j
Without(s, j) == SubSeq(s, 1, j - 1) \o SubSeq(s, j + 1, Len(s))

\* The requests the clients of the model send for a file that is not cached.
\* The files outside Requested are asked for one after the other, in the
\* order of their names and CACHE_HITS_TO_STORE times each, the next one
\* once the one before is cached, and only as long as nothing else has
\* happened; the files of Requested are asked for at any time.
Sends_Download(f, downloads) ==
    \/ /\ f \in Requested
       /\ downloads <= CACHE_HITS_TO_STORE + MaxExtra
    \/ /\ f \notin Requested
       /\ downloads <= CACHE_HITS_TO_STORE
       /\ f = SmallFile \/ CacheHas(fileCache, f - 1)
       /\ adding = <<>>
       /\ ticks = 0
       /\ SumHits(fileCache) = 0
       /\ \A r \in Requested : ~MapHasKey(downloadStats, r)

\* hotCacheMiddleware(request, reply, done) for /download/f: a hit is served
\* from the cache; a miss is recorded by recordDownload, which starts
\* addToCache from the CACHE_HITS_TO_STORE-th download on while the file is
\* not cached, and passed on
hotCacheMiddleware(f) ==
    IF CacheHas(fileCache, f)
    THEN /\ SumHits(fileCache) < MaxHits
         /\ fileCache' = [fileCache EXCEPT ![CacheIndex(fileCache, f)] =
                             [@ EXCEPT !.hits = @ + 1, !.lastAccess = now]]
         /\ reply' = [route |-> "download", status |-> 200, cache |-> "HIT"]
         /\ UNCHANGED <<downloadStats, adding>>
    ELSE LET downloads == IF MapHasKey(downloadStats, f) THEN downloadStats[f] + 1
                          ELSE 1
             starts == downloads >= CACHE_HITS_TO_STORE
         IN  /\ Sends_Download(f, downloads)
             /\ starts => Len(adding) < MaxInFlight
             /\ downloadStats' = [x \in DOMAIN downloadStats \cup {f} |->
                                     IF x = f THEN downloads ELSE downloadStats[x]]
             /\ adding' = IF starts THEN Append(adding, [name |-> f, stage |-> "stat"])
                          ELSE adding
             /\ reply' = [route |-> "download", status |-> 200, cache |-> "MISS"]
             /\ UNCHANGED fileCache

Download(f) ==
    /\ hotCacheMiddleware(f)
    /\ UNCHANGED <<now, ticks, rateLimitMap, observed, API_KEY, totalCacheSize,
                   migrateVars, disk, db, nextStored>>

\* addToCache after fs.promises.stat: a file above MAX_FILE_SIZE_MB is not
\* cached; when the cache has no room, one entry is evicted; readFile starts
Add_Stat(a) ==
    /\ a \in 1..Len(adding)
    /\ adding[a].stage = "stat"
    /\ LET size == statSize(adding[a].name) IN
         IF size > MAX_FILE_SIZE_MB * MB
         THEN /\ adding' = Without(adding, a)
              /\ UNCHANGED <<fileCache, totalCacheSize>>
         ELSE /\ adding' = [adding EXCEPT ![a].stage = "read"]
              /\ IF totalCacheSize + size > MAX_CACHE_SIZE_MB * MB /\ fileCache # <<>>
                 THEN LET j == leastUsed(fileCache) IN
                      /\ totalCacheSize' = totalCacheSize - fileCache[j].size
                      /\ fileCache' = CacheDelete(fileCache, fileCache[j].name)
                 ELSE UNCHANGED <<fileCache, totalCacheSize>>
    /\ UNCHANGED <<now, ticks, rateLimitMap, observed, reply, API_KEY, downloadStats,
                   migrateVars, disk, db, nextStored>>

\* addToCache after readFile: fileCache.set(...); totalCacheSize += stats.size
Add_Read(a) ==
    /\ a \in 1..Len(adding)
    /\ adding[a].stage = "read"
    /\ LET f == adding[a].name IN
         /\ fileCache' = CacheSet(fileCache, [name |-> f, size |-> statSize(f),
                                              hits |-> 0, lastAccess |-> now])
         /\ totalCacheSize' = totalCacheSize + statSize(f)
    /\ adding' = Without(adding, a)
    /\ UNCHANGED <<now, ticks, rateLimitMap, observed, reply, API_KEY, downloadStats,
                   migrateVars, disk, db, nextStored>>

\* stat or readFile rejects: catch (error) { return false; }
Add_Fail(a) ==
    /\ a \in 1..Len(adding)
    /\ adding' = Without(adding, a)
    /\ UNCHANGED <<now, ticks, rateLimitMap, observed, reply, API_KEY, fileCache,
                   downloadStats, totalCacheSize, migrateVars, disk, db, nextStored>>

\* setInterval(..., CLEANUP_INTERVAL): the entries not accessed for maxAge
\* and hit fewer than 10 times go
CacheCleanup ==
    LET expired(entry) == now - entry.lastAccess > maxAge /\ entry.hits < KeptHits IN
    /\ fileCache' = SelectSeq(fileCache, LAMBDA entry : ~expired(entry))
    /\ totalCacheSize' = totalCacheSize - SumSizes(SelectSeq(fileCache, expired))
    /\ UNCHANGED <<now, ticks, rateLimitMap, observed, reply, API_KEY, downloadStats,
                   adding, migrateVars, disk, db, nextStored>>

\* more than maxAge passes with no request
CacheIdle ==
    /\ ticks < MaxIdle
    /\ now' = now + maxAge + 1
    /\ ticks' = ticks + 1
    /\ UNCHANGED <<rateLimitMap, observed, reply, API_KEY, fileCache, downloadStats,
                   totalCacheSize, adding, migrateVars, disk, db, nextStored>>

InitCache == MigrateIdle /\ ServerFresh

NextCache ==
    \/ \E f \in Files : Download(f)
    \/ \E a \in 1..MaxInFlight : Add_Stat(a)
    \/ \E a \in 1..MaxInFlight : Add_Read(a)
    \/ \E a \in 1..MaxInFlight : Add_Fail(a)
    \/ CacheCleanup
    \/ CacheIdle

SpecCache == InitCache /\ [][NextCache]_vars

\* C23: in every interval of WINDOW_MS milliseconds the rate limiter lets at
\* most MAX_REQUESTS download requests of one client through; every further
\* request of the client in the interval is answered 429.
C23_SixtyPerMinute == observed.passes <= MAX_REQUESTS
\* the request answered last carried the configured API key or belonged to
\* an authenticated session
Authorised ==
    \/ API_KEY # Unset /\ reply.apiKey = API_KEY
    \/ reply.session

\* C24: an upload is processed only for a request with the configured API
\* key or an authenticated session; any other request is rejected and
\* stores no file, whatever the configuration of the server.
C24_UploadNeedsAuth ==
    (reply.route = "upload" /\ ~Authorised) =>
        /\ reply.status \in {401, 429}
        /\ reply.stored = ""
\* C25: the files held in the hot cache never take more than
\* MAX_CACHE_SIZE_MB in all, and none of them is larger than
\* MAX_FILE_SIZE_MB.
C25_CacheWithinLimit ==
    /\ SumSizes(fileCache) <= MAX_CACHE_SIZE_MB * MB
    /\ \A j \in 1..Len(fileCache) : fileCache[j].size <= MAX_FILE_SIZE_MB * MB

\* C28: totalCacheSize is the sum of the sizes of the entries of fileCache.
C28_TotalIsSumOfSizes == totalCacheSize = SumSizes(fileCache)
====
